---- MODULE Spec2Model ----
(***************************************************************************)
(* Model of the Task 2 warehouse pipeline of run_task2.py:                 *)
(* Task2DataWarehouse.run = load_raw_data ; create_star_schema ;           *)
(* run_data_tests, over the SQLite store data/medical_warehouse.db and the *)
(* raw JSON files under data/raw/telegram_messages.                        *)
(*                                                                         *)
(* SQL values: a nullable value is a sequence of length 0 (NULL) or 1.     *)
(* A calendar date is a day number (days since 1970-01-01); its text form  *)
(* 'YYYY-MM-DD' is the triple <<y, m, d>> computed by Civil.               *)
(* A table is [exists, rows] with rows in rowid order; dim_dates holds the  *)
(* day of each of its rows, and DateRows gives the columns.                *)
(*                                                                         *)
(* channel_classification holds one channel name (its characters) and the  *)
(* channel_type the CASE of dim_channels gives it; pg_telegram_messages is *)
(* the table raw.telegram_messages of load_to_postgres_and_run_dbt.py.     *)
(***************************************************************************)
EXTENDS Integers, Sequences, FiniteSets, TLC

VARIABLES files, raw_telegram_messages, stg_telegram_messages, dim_dates,
          dim_channels, fct_messages, now, report, last_run,
          channel_classification, pg_telegram_messages

vars == <<files, raw_telegram_messages, stg_telegram_messages, dim_dates,
          dim_channels, fct_messages, now, report, last_run,
          channel_classification, pg_telegram_messages>>

\* ---------------------------------------------------------------- bounds
MaxFiles == 2
MaxBatchLen == 2
MaxRecords == 2
MaxTicks == 1
MaxNameParts == 2
StartDay == 19737

\* ------------------------------------------------------ program constants
PadDays == 30
DefaultDays == 365

\* ------------------------------------------------------------ SQL values
None == <<>>
Some(v) == <<v>>
IsNull(x) == x = <<>>
Val(x) == x[1]

NoTable == [exists |-> FALSE, rows |-> <<>>]
Table(rs) == [exists |-> TRUE, rows |-> rs]

RECURSIVE Concat(_)
Concat(ss) == IF ss = <<>> THEN <<>> ELSE Head(ss) \o Concat(Tail(ss))

Range(s) == {s[i] : i \in 1..Len(s)}

\* ------------------------------------------------------------- calendar
\* proleptic Gregorian date <<y, m, d>> of a day number, as Python's date
\* arithmetic and SQLite's date()/strftime() compute it
YearOfEra(doe) ==
    (doe - (doe \div 1460) + (doe \div 36524) - (doe \div 146096)) \div 365
DayOfYear(doe, yoe) == doe - (365 * yoe + (yoe \div 4) - (yoe \div 100))
MonthOf(mp) == IF mp < 10 THEN mp + 3 ELSE mp - 9
YmdOf(era, yoe, doy, mp) ==
    <<yoe + era * 400 + (IF MonthOf(mp) <= 2 THEN 1 ELSE 0), MonthOf(mp),
      doy - ((153 * mp + 2) \div 5) + 1>>
YmdOfDoy(era, yoe, doy) == YmdOf(era, yoe, doy, (5 * doy + 2) \div 153)
YmdOfYoe(era, doe, yoe) == YmdOfDoy(era, yoe, DayOfYear(doe, yoe))
YmdOfDoe(era, doe) == YmdOfYoe(era, doe, YearOfEra(doe))
YmdOfEra(z1, era) == YmdOfDoe(era, z1 - era * 146097)
CivilOf(z) == YmdOfEra(z + 719468, (z + 719468) \div 146097)

\* the days the model can meet, and their dates computed once
CalendarDays ==
    (StartDay - DefaultDays - 2 * PadDays)..(StartDay + MaxTicks + DefaultDays + 2 * PadDays)
CivilTable == [z \in CalendarDays |-> CivilOf(z)]
Civil(z) == CivilTable[z]

\* strftime('%Y%m', date) in the place of '%Y%m%d'
DateKeyNoDay(ymd) == ymd[1] * 10000 + ymd[2] * 100

\* CAST(strftime('%Y%m%d', date) AS INTEGER)
DateKey(ymd) == ymd[1] * 10000 + ymd[2] * 100 + ymd[3]

\* order of two 'YYYY-MM-DD' texts (fixed width, so field by field)
YmdLess(a, b) ==
    \/ a[1] < b[1]
    \/ a[1] = b[1] /\ a[2] < b[2]
    \/ a[1] = b[1] /\ a[2] = b[2] /\ a[3] < b[3]

\* ----------------------------------------------------------- timestamps
\* A message_date text is one of
\*   [kind |-> "ts", day, tod, sep]  an ISO timestamp; sep "T" is what the
\*        scraper writes (isoformat of an aware datetime, '...T..+00:00'),
\*        sep " " is SQLite's own 'YYYY-MM-DD HH:MM:SS'
\*   [kind |-> "text", hi]  a text that is no timestamp; hi says whether it
\*        sorts after every timestamp text ('yesterday') or before ('01/02/2020')
Ts(day, tod, sep) == [kind |-> "ts", day |-> day, tod |-> tod, sep |-> sep]
BadText(hi) == [kind |-> "text", hi |-> hi]

\* CURRENT_TIMESTAMP at the clock value n
CurrentTimestamp(n) == Ts(n.day, n.tod, " ")

\* datetime.now().isoformat()
NowIso(n) == Ts(n.day, n.tod, "T")

SepRank(sep) == IF sep = " " THEN 0 ELSE 1

\* a > b for two message_date texts, as SQLite compares TEXT (bytewise)
TextGt(a, b) ==
    IF a.kind = "text" /\ b.kind = "text" THEN a.hi /\ ~b.hi
    ELSE IF a.kind = "text" THEN a.hi
    ELSE IF b.kind = "text" THEN ~b.hi
    ELSE \/ YmdLess(Civil(b.day), Civil(a.day))
         \/ /\ a.day = b.day
            /\ \/ SepRank(a.sep) > SepRank(b.sep)
               \/ SepRank(a.sep) = SepRank(b.sep) /\ a.tod > b.tod

\* message_date > CURRENT_TIMESTAMP
GtCurrentTimestamp(md, n) == TextGt(md, CurrentTimestamp(n))

\* DATE(message_date): NULL for a text that is no timestamp
DateOf(md) ==
    IF IsNull(md) THEN None
    ELSE IF Val(md).kind = "ts" THEN Some(Civil(Val(md).day)) ELSE None

\* ------------------------------------------------------------ raw input
Fields == {"message_id", "channel_name", "channel_username", "channel_title",
           "message_date", "message_text", "has_media", "image_path",
           "views", "forwards", "scraped_at"}

\* a JSON object with the given keys; a key not in keys is missing
Dict(keys, id, name, user, title, date, text, media, image, views) ==
    [kind |-> "dict", keys |-> keys, message_id |-> id, channel_name |-> name,
     channel_username |-> user, channel_title |-> title, message_date |-> date,
     message_text |-> text, has_media |-> media, image_path |-> image,
     views |-> views, forwards |-> Some(0), scraped_at |-> None]

\* a JSON element that is not an object
Junk == [kind |-> "junk"]

\* msg.get(key, default)
Get(msg, key, default) == IF key \in msg.keys THEN msg[key] ELSE default

AllButScraped == Fields \ {"scraped_at"}

\* a regular post of yesterday, in the scraper's format
RegularPost ==
    Dict(AllButScraped, Some(1), Some("CheMed"), Some("u1"), Some("t1"),
         Some(Ts(StartDay - 1, 1, "T")), Some(<<" ", "a", " ">>),
         Some(TRUE), Some("p"), Some(7))

\* the files that hold one object instead of a list
SingleObjects == {RegularPost}

Pool ==
    { RegularPost,
      \* same key as the regular post, other content, no timestamp
      Dict(AllButScraped, Some(1), Some("CheMed"), Some("u2"), Some("t1"),
           None, Some(<<"a">>), Some(FALSE), None, Some(3)),
      \* same channel name under another username, posted earlier today
      Dict(AllButScraped, Some(2), Some("CheMed"), Some("u2"), Some("t1"),
           Some(Ts(StartDay, 0, "T")), Some(<<"a", "a">>),
           Some(FALSE), None, Some(7)),
      \* negative view count and null text, dated more than the padding
      \* before the others
      Dict(AllButScraped, Some(3), Some("CheMed"), Some("u1"), Some("t1"),
           Some(Ts(StartDay - PadDays - 2, 2, " ")), None,
           Some(TRUE), Some("p"), Some(-5)),
      \* dated tomorrow, text and views missing
      Dict(AllButScraped \ {"message_text", "views"}, Some(4), Some("SkinGlow"),
           Some("u3"), Some("t3"),
           Some(Ts(StartDay + 1, 0, " ")), None, Some(FALSE), None, None),
      \* a date text that is no timestamp
      Dict(AllButScraped, Some(5), Some("HealthPlus"), None, None,
           Some(BadText(FALSE)), Some(<<"a">>), Some(FALSE), None, Some(1))
    }

Elements == Pool \cup {Junk}

RECURSIVE SeqsUpTo(_, _)
SeqsUpTo(S, n) ==
    IF n = 0 THEN {<<>>}
    ELSE LET shorter == SeqsUpTo(S, n - 1)
         IN shorter \cup {Append(s, e) : s \in {t \in shorter : Len(t) = n - 1}, e \in S}

\* the content of a JSON file: a list of elements, or a single object
FileContents ==
    {[list |-> TRUE, items |-> s] : s \in SeqsUpTo(Elements, MaxBatchLen) \ {<<>>}}
    \cup {[list |-> FALSE, items |-> <<m>>] : m \in SingleObjects}

RECURSIVE TotalItems(_)
TotalItems(fs) == IF fs = <<>> THEN 0 ELSE Len(Head(fs).items) + TotalItems(Tail(fs))

\* ------------------------------------------------------- load_raw_data
\* the parameter tuple of the INSERT for one message object
InsertValues(msg, n) ==
    [message_id       |-> Get(msg, "message_id", None),
     channel_name     |-> Get(msg, "channel_name", Some("")),
     channel_username |-> Get(msg, "channel_username", None),
     channel_title    |-> Get(msg, "channel_title", None),
     message_date     |-> Get(msg, "message_date", None),
     message_text     |-> Get(msg, "message_text", Some(<<>>)),
     has_media        |-> Get(msg, "has_media", Some(FALSE)),
     image_path       |-> Get(msg, "image_path", None),
     views            |-> Get(msg, "views", Some(0)),
     forwards         |-> Get(msg, "forwards", Some(0)),
     scraped_at       |-> Get(msg, "scraped_at", Some(NowIso(n)))]

\* UNIQUE(message_id, channel_name)
SameKey(r, v) == r.message_id = v.message_id /\ r.channel_name = v.channel_name

KeyOf(r) == <<r.message_id, r.channel_name>>

\* INSERT OR IGNORE with neither constraint: every row is stored
InsertAlways(rows, v) == Append(rows, [id |-> Len(rows) + 1] @@ v)

\* INSERT OR IGNORE: a row that breaks NOT NULL or UNIQUE is skipped
InsertOrIgnore(rows, v) ==
    IF IsNull(v.message_id) \/ IsNull(v.channel_name) THEN rows
    ELSE IF \E i \in 1..Len(rows) : SameKey(rows[i], v) THEN rows
    ELSE Append(rows, [id |-> Len(rows) + 1] @@ v)

RECURSIVE LoadMessagesAbort(_, _, _)
\* a loop that leaves the file at the first element that is no object
LoadMessagesAbort(rows, msgs, n) ==
    IF msgs = <<>> THEN rows
    ELSE IF Head(msgs).kind # "dict" THEN rows
    ELSE LoadMessagesAbort(InsertOrIgnore(rows, InsertValues(Head(msgs), n)),
                           Tail(msgs), n)

RECURSIVE LoadMessages(_, _, _)
\* the loop over the messages of one file
LoadMessages(rows, msgs, n) ==
    IF msgs = <<>> THEN rows
    ELSE LET msg == Head(msgs)
         IN IF msg.kind # "dict"
            THEN LoadMessages(rows, Tail(msgs), n)
            ELSE LoadMessages(InsertOrIgnore(rows, InsertValues(msg, n)), Tail(msgs), n)

RECURSIVE LoadFiles(_, _, _, _)
\* the loop over the JSON files; total is total_messages
LoadFiles(rows, total, fs, n) ==
    IF fs = <<>> THEN [rows |-> rows, total |-> total]
    ELSE LoadFiles(LoadMessages(rows, Head(fs).items, n),
                   total + Len(Head(fs).items), Tail(fs), n)

\* load_raw_data(conn) with the files in glob order fs
load_raw_data(raw, fs, n) == LoadFiles(raw.rows, 0, fs, n)

\* the message objects of the files fs
DictItems(fs) ==
    UNION {{fs[i].items[j] :
              j \in {k \in 1..Len(fs[i].items) : fs[i].items[k].kind = "dict"}} :
           i \in 1..Len(fs)}

\* the keys (message_id, channel_name) that the files fs hold
KeysSeen(fs) ==
    {<<m.message_id, Get(m, "channel_name", Some(""))>> :
        m \in {d \in DictItems(fs) :
                 "message_id" \in d.keys /\ ~IsNull(d.message_id)
                 /\ ~IsNull(Get(d, "channel_name", Some("")))}}

\* the keys of the rows of a table
KeySet(rows) == {KeyOf(rows[i]) : i \in 1..Len(rows)}

\* ---------------------------------------------------- staging (CTAS 1)
IsSpace(c) == c = " "

RECURSIVE LTrim(_)
LTrim(t) == IF t # <<>> /\ IsSpace(Head(t)) THEN LTrim(Tail(t)) ELSE t

RECURSIVE RTrim(_)
RTrim(t) ==
    IF t # <<>> /\ IsSpace(t[Len(t)]) THEN RTrim(SubSeq(t, 1, Len(t) - 1)) ELSE t

\* TRIM(message_text), NULL for NULL
Trim(text) == IF IsNull(text) THEN None ELSE Some(RTrim(LTrim(Val(text))))

\* LENGTH(x), NULL for NULL
Length(text) == IF IsNull(text) THEN None ELSE Some(Len(Val(text)))

\* COALESCE(x, 0)
Coalesce0(x) == IF IsNull(x) THEN Some(0) ELSE x

\* a NULL or false condition of a CASE WHEN / WHERE is not taken
Truthy(b) == ~IsNull(b) /\ Val(b)

\* the CASE of data_quality_status with one flag only
QualityStatusNegativeOnly(is_empty, is_future, neg_views) ==
    IF neg_views THEN "needs_review" ELSE "valid"

\* the CASE of data_quality_status over the three flags
QualityStatus(is_empty, is_future, neg_views) ==
    IF is_empty \/ is_future \/ neg_views THEN "needs_review" ELSE "valid"

\* one row of cleaned_data with its data_quality_status
CleanedRow(r, n) ==
    LET views    == Coalesce0(r.views)
        trimmed  == Trim(r.message_text)
        is_empty == IsNull(r.message_text) \/ trimmed = Some(<<>>)
        is_future == GtCurrentTimestamp(Val(r.message_date), n)
        neg_views == Val(views) < 0
    IN [message_id |-> r.message_id,
        channel_name |-> r.channel_name,
        channel_username |-> r.channel_username,
        channel_title |-> r.channel_title,
        message_date |-> r.message_date,
        scraped_at |-> r.scraped_at,
        message_text |-> r.message_text,
        cleaned_message_text |-> trimmed,
        message_length |-> Length(trimmed),
        has_media |-> r.has_media,
        image_path |-> r.image_path,
        has_image |-> ~IsNull(r.image_path),
        views |-> views,
        forwards |-> Coalesce0(r.forwards),
        is_empty_message |-> is_empty,
        is_future_date |-> is_future,
        has_negative_views |-> neg_views,
        data_quality_status |-> QualityStatus(is_empty, is_future, neg_views)]

\* WHERE NOT is_future_date
KeepStaged(c) == ~c.is_future_date

RECURSIVE BuildStaging(_, _)
\* the SELECT of stg_telegram_messages over the raw rows, in rowid order
BuildStaging(rows, n) ==
    IF rows = <<>> THEN <<>>
    ELSE LET r == Head(rows)
             rest == BuildStaging(Tail(rows), n)
         IN IF IsNull(r.message_date) THEN rest
            ELSE IF KeepStaged(CleanedRow(r, n)) THEN <<CleanedRow(r, n)>> \o rest
            ELSE rest

\* ------------------------------------------------- dim_dates (CTAS 2)
\* day number of <<y, m, d>>
DaysFromCivil(ymd) ==
    LET y   == IF ymd[2] <= 2 THEN ymd[1] - 1 ELSE ymd[1]
        era == y \div 400
        yoe == y - era * 400
        mp  == IF ymd[2] > 2 THEN ymd[2] - 3 ELSE ymd[2] + 9
        doy == ((153 * mp + 2) \div 5) + ymd[3] - 1
        doe == yoe * 365 + (yoe \div 4) - (yoe \div 100) + doy
    IN era * 146097 + doe - 719468

\* strftime('%w'): 0 = Sunday
DayOfWeek(z) == (z + 4) % 7

\* strftime('%W'): week of the year, Monday the first day of a week
WeekOfYear(z) ==
    LET yday == z - DaysFromCivil(<<Civil(z)[1], 1, 1>>)
    IN (yday + 7 - ((DayOfWeek(z) + 6) % 7)) \div 7

MonthName(m) ==
    <<"January", "February", "March", "April", "May", "June", "July",
      "August", "September", "October", "November", "December">>[m]

DayName(w) ==
    <<"Sunday", "Monday", "Tuesday", "Wednesday", "Thursday", "Friday",
      "Saturday">>[w + 1]

\* the SELECT list of dim_dates for one date of date_range
DateRowOf(z) ==
    LET ymd == Civil(z)
    IN [date_key |-> DateKey(ymd),
        full_date |-> ymd,
        year |-> ymd[1],
        quarter |-> ((ymd[2] - 1) \div 3) + 1,
        month |-> ymd[2],
        month_name |-> MonthName(ymd[2]),
        week_of_year |-> WeekOfYear(z) + 1,
        day_of_month |-> ymd[3],
        day_of_week |-> DayOfWeek(z),
        day_name |-> DayName(DayOfWeek(z)),
        is_weekend |-> DayOfWeek(z) \in {0, 6}]

DateRowTable == [z \in CalendarDays |-> DateRowOf(z)]
DateRow(z) == DateRowTable[z]

\* the DATE(message_date) values of the staging rows that are not NULL
StagedDates(stg) ==
    {Val(DateOf(stg[i].message_date)) :
        i \in {j \in 1..Len(stg) : ~IsNull(DateOf(stg[j].message_date))}}

\* MIN / MAX of a set of 'YYYY-MM-DD' texts
MinDate(S) == CHOOSE x \in S : \A y \in S : ~YmdLess(y, x)
MaxDate(S) == CHOOSE x \in S : \A y \in S : ~YmdLess(x, y)

\* min_date and max_date as create_star_schema computes them (day numbers
\* of the Python dates)
DateWindow(stg, n) ==
    IF StagedDates(stg) # {}
    THEN [min |-> DaysFromCivil(MinDate(StagedDates(stg))) - PadDays,
          max |-> DaysFromCivil(MaxDate(StagedDates(stg))) + PadDays]
    ELSE [min |-> n.day - DefaultDays, max |-> n.day + DefaultDays]

\* a date_range that stops the day before max
DateRangeOpen(min, max) ==
    [i \in 1..(IF max <= min THEN 1 ELSE max - min) |-> min + i - 1]

\* the recursive CTE date_range: the anchor day, then +1 day while date < max
DateRange(min, max) ==
    [i \in 1..(IF max < min THEN 1 ELSE max - min + 1) |-> min + i - 1]

\* the rows of date_range for the staging rows stg. The variable dim_dates
\* holds these days; the columns of its rows are DateRow of them, see
\* DateRows
BuildDates(stg, n) == DateRange(DateWindow(stg, n).min, DateWindow(stg, n).max)

\* the rows of dim_dates: the SELECT list of the CTAS for each day of
\* date_range
DateRows(days) == [i \in 1..Len(days) |-> DateRow(days[i])]

\* ---------------------------------------------- dim_channels (CTAS 3)
\* the characters of the channel names of the input
NameChars(name) ==
    CASE name = "CheMed"     -> <<"C", "h", "e", "M", "e", "d">>
      [] name = "HealthPlus" -> <<"H", "e", "a", "l", "t", "h", "P", "l", "u", "s">>
      [] name = "SkinGlow"   -> <<"S", "k", "i", "n", "G", "l", "o", "w">>
      [] OTHER               -> <<>>

UpperCase ==
    <<"A", "B", "C", "D", "E", "F", "G", "H", "I", "J", "K", "L", "M",
      "N", "O", "P", "Q", "R", "S", "T", "U", "V", "W", "X", "Y", "Z">>
LowerCase ==
    <<"a", "b", "c", "d", "e", "f", "g", "h", "i", "j", "k", "l", "m",
      "n", "o", "p", "q", "r", "s", "t", "u", "v", "w", "x", "y", "z">>

\* LOWER() of one character: the ASCII capitals are folded
LowerChar(c) ==
    IF \E i \in 1..Len(UpperCase) : UpperCase[i] = c
    THEN LowerCase[CHOOSE i \in 1..Len(UpperCase) : UpperCase[i] = c]
    ELSE c

Lower(t) == [i \in 1..Len(t) |-> LowerChar(t[i])]

\* t LIKE '%kw%'
Contains(t, kw) ==
    \E i \in 1..(Len(t) - Len(kw) + 1) : SubSeq(t, i, i + Len(kw) - 1) = kw

\* the first WHEN without LIKE '%med%'
PharmaKeywordsNoMed ==
    {<<"p", "h", "a", "r", "m", "a">>, <<"d", "r", "u", "g">>,
     <<"p", "h", "a", "r", "m", "a", "c", "y">>, <<"p", "i", "l", "l">>,
     <<"t", "a", "b", "l", "e", "t">>}

PharmaKeywords ==
    {<<"p", "h", "a", "r", "m", "a">>, <<"m", "e", "d">>, <<"d", "r", "u", "g">>,
     <<"p", "h", "a", "r", "m", "a", "c", "y">>, <<"p", "i", "l", "l">>,
     <<"t", "a", "b", "l", "e", "t">>}

CosmeticsKeywords ==
    {<<"c", "o", "s", "m", "e", "t", "i", "c">>, <<"b", "e", "a", "u", "t", "y">>,
     <<"s", "k", "i", "n">>, <<"c", "r", "e", "a", "m">>,
     <<"l", "o", "t", "i", "o", "n">>, <<"m", "a", "k", "e", "u", "p">>}

MedicalKeywords ==
    {<<"h", "e", "a", "l", "t", "h">>, <<"m", "e", "d", "i", "c", "a", "l">>,
     <<"h", "o", "s", "p", "i", "t", "a", "l">>, <<"c", "l", "i", "n", "i", "c">>,
     <<"d", "o", "c", "t", "o", "r">>}

\* a classification that gives the empty text
ChannelTypeBlank(name) == ""

\* the CASE with its third WHEN tested first
ChannelTypeMedicalFirst(t) ==
    IF \E kw \in MedicalKeywords : Contains(t, kw) THEN "Medical"
    ELSE IF \E kw \in PharmaKeywords : Contains(t, kw) THEN "Pharmaceutical"
    ELSE IF \E kw \in CosmeticsKeywords : Contains(t, kw) THEN "Cosmetics"
    ELSE "Other"

\* the CASE of channel_classification over t = LOWER(channel_name): the
\* first WHEN that holds gives the type
ChannelTypeOfLower(t) ==
    IF \E kw \in PharmaKeywords : Contains(t, kw) THEN "Pharmaceutical"
    ELSE IF \E kw \in CosmeticsKeywords : Contains(t, kw) THEN "Cosmetics"
    ELSE IF \E kw \in MedicalKeywords : Contains(t, kw) THEN "Medical"
    ELSE "Other"

\* channel_type of the channel name with the characters chars
ChannelTypeOf(chars) == ChannelTypeOfLower(Lower(chars))

\* channel_type of a channel_name of the input
ChannelType(name) == ChannelTypeOf(NameChars(Val(name)))

\* GROUP BY channel_name, channel_username, channel_title
GroupKey(r) == <<r.channel_name, r.channel_username, r.channel_title>>

ValidRows(stg) == SelectSeq(stg, LAMBDA r : r.data_quality_status = "valid")

RECURSIVE SumSeq(_)
SumSeq(xs) == IF xs = <<>> THEN 0 ELSE Head(xs) + SumSeq(Tail(xs))

\* ROUND(num / den, 2) in hundredths, halves away from zero
Round2(num, den) ==
    IF num >= 0 THEN (200 * num + den) \div (2 * den)
    ELSE 0 - ((200 * (0 - num) + den) \div (2 * den))

\* the ratio times 1000.0 in the place of 100.0
PercentagePerMille(count, total) ==
    IF total = 0 THEN None ELSE Some(Round2(count * 1000, total))

\* ROUND(count * 100.0 / NULLIF(total, 0), 2) in hundredths
Percentage(count, total) ==
    IF total = 0 THEN None ELSE Some(Round2(count * 100, total))

\* MIN / MAX of the message_date texts of a non-empty group
MinText(rows) ==
    Val(rows[CHOOSE i \in 1..Len(rows) : \A j \in 1..Len(rows) :
            ~TextGt(Val(rows[i].message_date), Val(rows[j].message_date))].message_date)
MaxText(rows) ==
    Val(rows[CHOOSE i \in 1..Len(rows) : \A j \in 1..Len(rows) :
            ~TextGt(Val(rows[j].message_date), Val(rows[i].message_date))].message_date)

\* last_post_date >= DATE('now', '-k days'), a comparison of texts
NotBefore(md, n, k) ==
    IF md.kind = "text" THEN md.hi
    ELSE ~YmdLess(Civil(md.day), Civil(n.day - k))

ActivityStatus(last, n) ==
    IF NotBefore(last, n, 7) THEN "active"
    ELSE IF NotBefore(last, n, 30) THEN "moderate"
    ELSE "inactive"

\* one row of channel_classification, without its key
ChannelStats(key, valid, n) ==
    LET rows  == SelectSeq(valid, LAMBDA r : GroupKey(r) = key)
        total == Len(rows)
        media == SumSeq([i \in 1..total |->
                           IF Truthy(rows[i].has_media) THEN 1 ELSE 0])
        image == SumSeq([i \in 1..total |-> IF rows[i].has_image THEN 1 ELSE 0])
    IN [channel_name |-> key[1],
        channel_username |-> key[2],
        channel_title |-> key[3],
        channel_type |-> ChannelType(key[1]),
        first_post_date |-> MinText(rows),
        last_post_date |-> MaxText(rows),
        total_posts |-> total,
        avg_views |-> Round2(SumSeq([i \in 1..total |-> Val(rows[i].views)]), total),
        avg_forwards |->
            Round2(SumSeq([i \in 1..total |-> Val(rows[i].forwards)]), total),
        posts_with_media |-> media,
        posts_with_image |-> image,
        media_percentage |-> Percentage(media, total),
        image_percentage |-> Percentage(image, total),
        activity_status |-> ActivityStatus(MaxText(rows), n)]

ChannelGroups(stg) == {GroupKey(ValidRows(stg)[i]) : i \in 1..Len(ValidRows(stg))}

\* a numbering that starts at 0
RowNumberFromZero(i) == i - 1

\* ROW_NUMBER() of the i-th row of the window order
RowNumber(i) == i

\* the orders ROW_NUMBER() OVER (ORDER BY total_posts DESC) may number the
\* groups in: any order with the post counts descending (SQL leaves the
\* order of equal counts open)
ChannelRankings(stg, n) ==
    LET groups == ChannelGroups(stg)
        k      == Cardinality(groups)
        stats  == [g \in groups |-> ChannelStats(g, ValidRows(stg), n)]
    IN {[i \in 1..k |-> [channel_key |-> RowNumber(i)] @@ stats[f[i]]] :
          f \in {g \in [1..k -> groups] :
                   /\ \A i, j \in 1..k : i # j => g[i] # g[j]
                   /\ \A i, j \in 1..k :
                        i < j => stats[g[i]].total_posts >= stats[g[j]].total_posts}}

\* ---------------------------------------------- fct_messages (CTAS 4)
\* LEFT JOIN dim_channels c ON m.channel_name = c.channel_name
ChannelJoin(m, c) == m.channel_name = c.channel_name

\* a join with every row of dim_dates
DateJoinAny(m, d) == ~IsNull(DateOf(m.message_date))

\* a join with the row of the day after the message date
DateJoinNextDay(m, d) ==
    /\ ~IsNull(DateOf(m.message_date))
    /\ Civil(Val(m.message_date).day + 1) = d.full_date

\* LEFT JOIN dim_dates d ON DATE(m.message_date) = d.full_date
DateJoin(m, d) ==
    ~IsNull(DateOf(m.message_date)) /\ Val(DateOf(m.message_date)) = d.full_date

FactRow(m, c, d) ==
    [message_id |-> m.message_id,
     channel_key |-> c.channel_key,
     date_key |-> d.date_key,
     message_text |-> m.cleaned_message_text,
     message_length |-> m.message_length,
     view_count |-> m.views,
     forward_count |-> m.forwards,
     has_image |-> m.has_image,
     data_quality_status |-> m.data_quality_status]

\* the join without AND m.data_quality_status = 'valid'
FactsOfAnyStatus(m, chans, days) ==
    IF IsNull(DateOf(m.message_date)) THEN <<>>
    ELSE LET cs == SelectSeq(chans, LAMBDA c : ChannelJoin(m, c))
             ds == SelectSeq(days, LAMBDA z : DateJoin(m, DateRow(z)))
         IN Concat([i \in 1..Len(cs) |->
                      [j \in 1..Len(ds) |-> FactRow(m, cs[i], DateRow(ds[j]))]])

\* the joined rows of one staging row, in join order; days are the days of
\* the rows of dim_dates
FactsOf(m, chans, days) ==
    IF m.data_quality_status # "valid" \/ IsNull(DateOf(m.message_date)) THEN <<>>
    ELSE LET cs == SelectSeq(chans, LAMBDA c : ChannelJoin(m, c))
             ds == SelectSeq(days, LAMBDA z : DateJoin(m, DateRow(z)))
         IN Concat([i \in 1..Len(cs) |->
                      [j \in 1..Len(ds) |-> FactRow(m, cs[i], DateRow(ds[j]))]])

BuildFacts(stg, chans, days) ==
    Concat([i \in 1..Len(stg) |-> FactsOf(stg[i], chans, days)])

\* ------------------------------------------------------ run_data_tests
TestNames ==
    <<"No future dates", "No negative views", "All channels have type",
      "Foreign key integrity (channels)", "Foreign key integrity (dates)">>

\* cursor.execute(query); cursor.fetchone()[0] of the i-th test: the count,
\* or NULL when the query raises because a table it names does not exist;
\* dates holds the days of the rows of dim_dates
TestQuery(i, stg, chans, dates, facts, n) ==
    CASE i = 1 ->
           IF ~stg.exists THEN None
           ELSE Some(Len(SelectSeq(stg.rows, LAMBDA r :
                       /\ GtCurrentTimestamp(Val(r.message_date), n)
                       /\ r.data_quality_status = "valid")))
      [] i = 2 ->
           IF ~stg.exists THEN None
           ELSE Some(Len(SelectSeq(stg.rows, LAMBDA r :
                       Val(r.views) < 0 /\ r.data_quality_status = "valid")))
      [] i = 3 ->
           IF ~chans.exists THEN None
           ELSE Some(Len(SelectSeq(chans.rows, LAMBDA c : c.channel_type = "")))
      [] i = 4 ->
           IF ~facts.exists \/ ~chans.exists THEN None
           ELSE Some(Len(SelectSeq(facts.rows, LAMBDA f :
                       ~\E k \in 1..Len(chans.rows) :
                           chans.rows[k].channel_key = f.channel_key)))
      [] i = 5 ->
           IF ~facts.exists \/ ~dates.exists THEN None
           ELSE Some(Len(SelectSeq(facts.rows, LAMBDA f :
                       ~\E k \in 1..Len(dates.rows) :
                           DateRow(dates.rows[k]).date_key = f.date_key)))

\* the try branch for a query that gave count: the line printed, the entry
\* appended to results, and all_passed
OnResult(acc, i, count) ==
    [all_passed |-> acc.all_passed /\ count = 0,
     results |-> Append(acc.results,
                   [test |-> TestNames[i], passed |-> count = 0, result |-> count]),
     printed |-> Append(acc.printed, [test |-> TestNames[i], error |-> FALSE])]

\* an except branch that leaves all_passed as it is
OnErrorKeepsPassed(acc, i) ==
    [all_passed |-> acc.all_passed,
     results |-> acc.results,
     printed |-> Append(acc.printed, [test |-> TestNames[i], error |-> TRUE])]

\* the except branch: the error line printed, all_passed = False
OnError(acc, i) ==
    [all_passed |-> FALSE,
     results |-> acc.results,
     printed |-> Append(acc.printed, [test |-> TestNames[i], error |-> TRUE])]

\* a loop that an error ends
NextTestAbort(i, raised, last) == IF raised THEN last + 1 ELSE i + 1

\* the test the for loop goes on with after test i
NextTest(i, raised, last) == i + 1

RECURSIVE TestLoop(_, _, _, _, _, _, _, _, _)
\* the for loop of run_data_tests from test i on; acc is
\* [all_passed, results, printed]; raises holds the tests whose query the
\* store fails for another reason than a missing table
TestLoop(i, acc, stg, chans, dates, facts, n, last, raises) ==
    IF i > last THEN acc
    ELSE LET result == IF i \in raises THEN None
                       ELSE TestQuery(i, stg, chans, dates, facts, n)
         IN TestLoop(NextTest(i, IsNull(result), last),
                     IF IsNull(result) THEN OnError(acc, i)
                     ELSE OnResult(acc, i, Val(result)),
                     stg, chans, dates, facts, n, last, raises)

\* the value run_data_tests returns, with the lines it printed
run_data_tests(stg, chans, dates, facts, n, raises) ==
    TestLoop(1, [all_passed |-> TRUE, results |-> <<>>, printed |-> <<>>],
             stg, chans, dates, facts, n, Len(TestNames), raises)

\* the rows save_test_results writes to reports/data_quality_tests.csv
save_test_results(results) ==
    Table([i \in 1..Len(results) |->
             [test |-> results[i].test,
              status |-> IF results[i].passed THEN "PASS" ELSE "FAIL",
              result |-> results[i].result]])

\* --------------------------------------------------------------- state
\* last_run is what the last call of run() or run_data_tests() came to:
\* status, the value of messages_loaded, the value run_data_tests returned,
\* the lines it printed, and rerun: whether run() started on a complete warehouse whose raw table
\* already held every key of the files
NoRun == [status |-> "none", messages_loaded |-> 0, all_passed |-> FALSE,
          results |-> <<>>, printed |-> <<>>, rerun |-> FALSE]

\* a channel name whose channel_type is not computed yet
Unclassified(chars) == [channel_name |-> chars, channel_type |-> None]

Init ==
    /\ files = <<>>
    /\ raw_telegram_messages = NoTable
    /\ stg_telegram_messages = NoTable
    /\ dim_dates = NoTable
    /\ dim_channels = NoTable
    /\ fct_messages = NoTable
    /\ now = [day |-> StartDay, tod |-> 1]
    /\ report = NoTable
    /\ last_run = NoRun
    /\ channel_classification = Unclassified(<<>>)
    /\ pg_telegram_messages = NoTable

\* the scraper writes one more JSON file under data/raw/telegram_messages
ScraperWrites(content) ==
    /\ Len(files) < MaxFiles
    /\ TotalItems(files) + Len(content.items) <= MaxRecords
    /\ files' = Append(files, content)
    /\ UNCHANGED <<raw_telegram_messages, stg_telegram_messages, dim_dates,
                   dim_channels, fct_messages, now, report, last_run,
                   channel_classification, pg_telegram_messages>>

\* a day passes
Tick ==
    /\ now.day < StartDay + MaxTicks
    /\ now' = [now EXCEPT !.day = @ + 1]
    /\ UNCHANGED <<files, raw_telegram_messages, stg_telegram_messages,
                   dim_dates, dim_channels, fct_messages, report, last_run,
                   channel_classification, pg_telegram_messages>>

Stages == <<"staging", "dates", "channels", "facts">>
StageNo(s) == CHOOSE i \in 1..Len(Stages) : Stages[i] = s
FailPoints == Range(Stages) \cup {"none"}

\* does statement number k of create_star_schema run to its end, when the
\* statement of stage failAt raises
Reached(k, failAt) == failAt = "none" \/ k < StageNo(failAt)

\* INSERT INTO t SELECT ... in the place of the CTAS: the rows are added
CreateTableAppend(t, rows) == Table(t.rows \o rows)

\* CREATE TABLE IF NOT EXISTS t AS SELECT ...: rows is the result of the
\* SELECT; an existing table is left as it is
CreateTableIfNotExists(t, rows) == IF t.exists THEN t ELSE Table(rows)

\* the four tables as the four statements of create_star_schema leave
\* them when each runs to its end, over the raw rows rawrows and with the
\* channel numbering ranking
StarSchema(rawrows, ranking) ==
    LET stg   == CreateTableIfNotExists(stg_telegram_messages,
                                        BuildStaging(rawrows, now))
        dates == CreateTableIfNotExists(dim_dates, BuildDates(stg.rows, now))
        chans == CreateTableIfNotExists(dim_channels, ranking)
        facts == CreateTableIfNotExists(fct_messages,
                     BuildFacts(stg.rows, chans.rows, dates.rows))
    IN [stg |-> stg, dates |-> dates, chans |-> chans, facts |-> facts]

\* create_star_schema(conn). Each CREATE TABLE ... AS runs outside a
\* transaction and is durable at once. failAt names the statement at which
\* the store raises an error, if any; the statements after it are not run.
create_star_schema(built, failAt) ==
    /\ stg_telegram_messages' =
         IF Reached(1, failAt) THEN built.stg ELSE stg_telegram_messages
    /\ dim_dates' = IF Reached(2, failAt) THEN built.dates ELSE dim_dates
    /\ dim_channels' = IF Reached(3, failAt) THEN built.chans ELSE dim_channels
    /\ fct_messages' = IF Reached(4, failAt) THEN built.facts ELSE fct_messages

\* Task2DataWarehouse.run(); glob lists the files in the order of files.
\* In its call of run_data_tests a query raises only for a missing table
Run ==
    LET loaded == load_raw_data(raw_telegram_messages, files, now)
        staged == CreateTableIfNotExists(stg_telegram_messages,
                                         BuildStaging(loaded.rows, now))
        rerun  == /\ raw_telegram_messages.exists
                  /\ fct_messages.exists
                  /\ KeySet(raw_telegram_messages.rows) = KeysSeen(files)
    IN /\ raw_telegram_messages' = Table(loaded.rows)
       /\ IF loaded.total = 0
          THEN /\ last_run' = [NoRun EXCEPT !.status = "no_data"]
               /\ UNCHANGED <<stg_telegram_messages, dim_dates, dim_channels,
                              fct_messages, report>>
          ELSE \E ranking \in ChannelRankings(staged.rows, now) :
               LET built == StarSchema(loaded.rows, ranking)
                   t     == run_data_tests(built.stg, built.chans,
                                           built.dates, built.facts, now, {})
               IN \E failAt \in FailPoints :
                    /\ create_star_schema(built, failAt)
                    /\ IF failAt # "none"
                       THEN /\ last_run' = [NoRun EXCEPT
                                              !.status = "failed",
                                              !.messages_loaded = loaded.total,
                                              !.rerun = rerun]
                            /\ UNCHANGED report
                       ELSE /\ report' = save_test_results(t.results)
                            /\ last_run' = [status |-> "done",
                                            messages_loaded |-> loaded.total,
                                            all_passed |-> t.all_passed,
                                            results |-> t.results,
                                            printed |-> t.printed,
                                            rerun |-> rerun]
       /\ UNCHANGED <<files, now, channel_classification, pg_telegram_messages>>

\* the sets of tests whose query the store fails in one call: none, or one
RaiseSets == {{}} \cup {{i} : i \in 1..Len(TestNames)}

\* run_data_tests(conn) called on the store as it is; a query raises when a
\* table it names is missing, or when the store fails it (raises)
RunDataTests(raises) ==
    LET t == run_data_tests(stg_telegram_messages, dim_channels, dim_dates,
                            fct_messages, now, raises)
    IN /\ report' = save_test_results(t.results)
       /\ last_run' = [status |-> "tested", messages_loaded |-> 0,
                       all_passed |-> t.all_passed, results |-> t.results,
                       printed |-> t.printed, rerun |-> FALSE]
       /\ UNCHANGED <<files, raw_telegram_messages, stg_telegram_messages,
                      dim_dates, dim_channels, fct_messages, now,
                      channel_classification, pg_telegram_messages>>

Next ==
    \/ \E content \in FileContents : ScraperWrites(content)
    \/ Tick
    \/ Run

Spec == Init /\ [][Next]_vars

\* the pipeline together with callers of run_data_tests, at one clock value
NextTests ==
    \/ \E content \in FileContents : ScraperWrites(content)
    \/ Run
    \/ \E raises \in RaiseSets : RunDataTests(raises)

SpecTests == Init /\ [][NextTests]_vars

\* ------------------------------------------- classification of a name
\* the pieces channel names are made of: each keyword of the CASE in some
\* letter case, and pieces that hold no keyword
Fragments ==
    {<<"P", "h", "a", "r", "m", "a">>,
     <<"M", "E", "D">>,
     <<"D", "r", "u", "g">>,
     <<"p", "i", "l", "l">>,
     <<"T", "a", "b", "l", "e", "t">>,
     <<"C", "o", "s", "m", "e", "t", "i", "c">>,
     <<"B", "e", "a", "u", "t", "y">>,
     <<"S", "k", "i", "n">>,
     <<"c", "r", "e", "a", "m">>,
     <<"L", "o", "t", "i", "o", "n">>,
     <<"M", "a", "k", "e", "U", "p">>,
     <<"H", "e", "a", "l", "t", "h">>,
     <<"M", "E", "D", "I", "C", "A", "L">>,
     <<"H", "o", "s", "p", "i", "t", "a", "l">>,
     <<"c", "l", "i", "n", "i", "c">>,
     <<"D", "O", "C", "T", "O", "R">>,
     <<"P", "l", "u", "s">>,
     <<"G", "l", "o", "w">>,
     <<"C", "h", "e">>,
     <<"X">>}

\* the channel names: up to MaxNameParts pieces in a row, or the empty name
ChannelNames == {Concat(s) : s \in SeqsUpTo(Fragments, MaxNameParts)}

InitClassify ==
    /\ files = <<>>
    /\ raw_telegram_messages = NoTable
    /\ stg_telegram_messages = NoTable
    /\ dim_dates = NoTable
    /\ dim_channels = NoTable
    /\ fct_messages = NoTable
    /\ now = [day |-> StartDay, tod |-> 1]
    /\ report = NoTable
    /\ last_run = NoRun
    /\ \E chars \in ChannelNames : channel_classification = Unclassified(chars)
    /\ pg_telegram_messages = NoTable

\* the SELECT of channel_classification computes channel_type of the name
Classify ==
    /\ IsNull(channel_classification.channel_type)
    /\ channel_classification' =
         [channel_classification EXCEPT
            !.channel_type = Some(ChannelTypeOf(channel_classification.channel_name))]
    /\ UNCHANGED <<files, raw_telegram_messages, stg_telegram_messages,
                   dim_dates, dim_channels, fct_messages, now, report, last_run,
                   pg_telegram_messages>>

NextClassify == Classify

SpecClassify == InitClassify /\ [][NextClassify]_vars

\* ------------------------------------------------- the two other loaders
\* the files whose message_date values are timestamps or null, which a
\* TIMESTAMP column takes
LoaderContents ==
    {c \in FileContents :
       \A i \in 1..Len(c.items) :
         c.items[i].kind = "dict" =>
           \/ IsNull(c.items[i].message_date)
           \/ Val(c.items[i].message_date).kind = "ts"}

\* for msg in messages: msg.get(...) raises for a file that is one object
\* (its keys are strings) and for an element that is no object
GetRaises(file) ==
    ~file.list \/ \E i \in 1..Len(file.items) : file.items[i].kind # "dict"

\* the tuples of data_to_insert of a file of objects
DataToInsert(file, n) ==
    [i \in 1..Len(file.items) |-> InsertValues(file.items[i], n)]

\* message_id BIGINT NOT NULL, channel_name VARCHAR(255) NOT NULL
NotNullRaises(data) ==
    \E i \in 1..Len(data) : IsNull(data[i].message_id) \/ IsNull(data[i].channel_name)

\* INSERT ... ON CONFLICT (message_id, channel_name) DO NOTHING of one tuple
\* (the columns id and created_at are left out)
OnConflictDoNothing(rows, v) ==
    IF \E i \in 1..Len(rows) : SameKey(rows[i], v) THEN rows ELSE Append(rows, v)

RECURSIVE execute_batch(_, _)
execute_batch(rows, data) ==
    IF data = <<>> THEN rows
    ELSE execute_batch(OnConflictDoNothing(rows, Head(data)), Tail(data))

\* the body of the loop of load_json_to_postgres for one file: the try block
\* with its commit, or the except branch with its rollback
LoadFileToPostgres(acc, file, n) ==
    IF GetRaises(file) THEN acc
    ELSE IF NotNullRaises(DataToInsert(file, n)) THEN acc
    ELSE [rows |-> execute_batch(acc.rows, DataToInsert(file, n)),
          total |-> acc.total + Len(file.items)]

RECURSIVE LoadFilesToPostgres(_, _, _)
LoadFilesToPostgres(acc, fs, n) ==
    IF fs = <<>> THEN acc
    ELSE LoadFilesToPostgres(LoadFileToPostgres(acc, Head(fs), n), Tail(fs), n)

\* load_json_to_postgres(conn) with the files in glob order fs
load_json_to_postgres(pg, fs, n) ==
    LoadFilesToPostgres([rows |-> pg.rows, total |-> 0], fs, n)

\* main() of load_to_postgres_and_run_dbt.py up to its step 3:
\* create_raw_table, then load_json_to_postgres
LoadJsonToPostgres ==
    LET loaded == load_json_to_postgres(pg_telegram_messages, files, now)
    IN /\ pg_telegram_messages' = Table(loaded.rows)
       /\ last_run' = [NoRun EXCEPT !.status = "postgres",
                                    !.messages_loaded = loaded.total]
       /\ UNCHANGED <<files, raw_telegram_messages, stg_telegram_messages,
                      dim_dates, dim_channels, fct_messages, now, report,
                      channel_classification>>

RECURSIVE InsertMessages(_, _, _)
\* the loop of processed_telegram_data over the messages of one file
InsertMessages(rows, msgs, n) ==
    IF msgs = <<>> THEN rows
    ELSE InsertMessages(InsertOrIgnore(rows, InsertValues(Head(msgs), n)),
                        Tail(msgs), n)

RECURSIVE InsertFiles(_, _, _, _)
\* the loop of processed_telegram_data over the files; total is
\* total_messages
InsertFiles(rows, total, fs, n) ==
    IF fs = <<>> THEN [rows |-> rows, total |-> total]
    ELSE InsertFiles(InsertMessages(rows, Head(fs).items, n),
                     total + Len(Head(fs).items), Tail(fs), n)

\* the asset raises with nothing committed: msg.get on something that is no
\* object, or a statement on the missing table raw_telegram_messages
AssetRaises(raw, fs) ==
    \/ \E i \in 1..Len(fs) : GetRaises(fs[i])
    \/ ~raw.exists

\* Task2DataWarehouse.create_star_schema of the module run_task2_fixed, which
\* the asset imports: the four statements of create_star_schema, each run
\* to its end
create_star_schema_fixed(built) == create_star_schema(built, "none")

\* the asset processed_telegram_data: the load in one transaction, then the
\* star schema. An exception leaves the asset before the commit, and the
\* rows inserted so far are lost with the connection
ProcessedTelegramData ==
    IF AssetRaises(raw_telegram_messages, files)
    THEN /\ last_run' = [NoRun EXCEPT !.status = "asset_failed"]
         /\ UNCHANGED <<files, raw_telegram_messages, stg_telegram_messages,
                        dim_dates, dim_channels, fct_messages, now, report,
                        channel_classification, pg_telegram_messages>>
    ELSE LET loaded == InsertFiles(raw_telegram_messages.rows, 0, files, now)
             staged == CreateTableIfNotExists(stg_telegram_messages,
                                              BuildStaging(loaded.rows, now))
         IN /\ raw_telegram_messages' = [raw_telegram_messages EXCEPT
                                           !.rows = loaded.rows]
            /\ \E ranking \in ChannelRankings(staged.rows, now) :
                 create_star_schema_fixed(StarSchema(loaded.rows, ranking))
            /\ last_run' = [NoRun EXCEPT !.status = "asset_done",
                                         !.messages_loaded = loaded.total]
            /\ UNCHANGED <<files, now, report, channel_classification,
                           pg_telegram_messages>>

\* the store after run() on an empty directory and after create_raw_table
InitLoaders ==
    /\ files = <<>>
    /\ raw_telegram_messages = Table(<<>>)
    /\ stg_telegram_messages = NoTable
    /\ dim_dates = NoTable
    /\ dim_channels = NoTable
    /\ fct_messages = NoTable
    /\ now = [day |-> StartDay, tod |-> 1]
    /\ report = NoTable
    /\ last_run = [NoRun EXCEPT !.status = "no_data"]
    /\ channel_classification = Unclassified(<<>>)
    /\ pg_telegram_messages = Table(<<>>)

NextLoaders ==
    \/ \E content \in LoaderContents : ScraperWrites(content)
    \/ LoadJsonToPostgres
    \/ ProcessedTelegramData

SpecLoaders == InitLoaders /\ [][NextLoaders]_vars

\* ---------------------------------------------------------------- claims
\* a step of run(): it leaves the files and the clock alone, and is no call
\* of run_data_tests alone
IsRunStep == files' = files /\ now' = now /\ last_run'.status # "tested"

\* a step of run() that ran to its end
IsCompleteRun == IsRunStep /\ last_run'.status = "done"

\* the step in which stg_telegram_messages is created
StagingBuilt == ~stg_telegram_messages.exists /\ stg_telegram_messages'.exists

\* the raw row r has a row in the staging rows stg
InStaging(r, stg) == \E i \in 1..Len(stg) : SameKey(stg[i], r)

\* the message_date md is a timestamp
IsTimestamp(md) == ~IsNull(md) /\ Val(md).kind = "ts"

\* the timestamp ts is strictly after the clock value n
After(ts, n) == ts.day > n.day \/ (ts.day = n.day /\ ts.tod > n.tod)

\* the number of message objects in the files
RECURSIVE DictCount(_)
DictCount(fs) ==
    IF fs = <<>> THEN 0
    ELSE Len(SelectSeq(Head(fs).items, LAMBDA m : m.kind = "dict")) + DictCount(Tail(fs))

\* C1: after every run of load_raw_data the raw table holds exactly one row
\* for each distinct key (message_id, channel_name) of the files, also when a
\* key occurs twice in a batch; a load that finds every key of the files
\* already stored leaves the row count as it was.
C1_InsertIfAbsent ==
    [][IsRunStep =>
         /\ KeySet(raw_telegram_messages'.rows) = KeysSeen(files)
         /\ Len(raw_telegram_messages'.rows) = Cardinality(KeysSeen(files))
         /\ (raw_telegram_messages.exists
               /\ KeySet(raw_telegram_messages.rows) = KeysSeen(files)
             => Len(raw_telegram_messages'.rows) = Len(raw_telegram_messages.rows))
      ]_vars

\* a load has met a key more than once and has stored it once
C1_Witness ==
    /\ raw_telegram_messages.exists
    /\ Len(raw_telegram_messages.rows) >= 1
    /\ KeySet(raw_telegram_messages.rows) = KeysSeen(files)
    /\ DictCount(files) > Len(raw_telegram_messages.rows)

\* C2: in every state, each row of fct_messages has a channel_key that
\* exactly one row of dim_channels carries and a date_key that exactly one
\* row of dim_dates carries.
C2_FactKeysResolveOnce ==
    fct_messages.exists =>
      \A i \in 1..Len(fct_messages.rows) :
        /\ Cardinality({k \in 1..Len(dim_channels.rows) :
              dim_channels.rows[k].channel_key = fct_messages.rows[i].channel_key}) = 1
        /\ Cardinality({k \in 1..Len(dim_dates.rows) :
              DateRow(dim_dates.rows[k]).date_key = fct_messages.rows[i].date_key}) = 1

\* a fact table with rows over a channel dimension of several rows
C2_Witness ==
    /\ fct_messages.exists
    /\ Len(fct_messages.rows) >= 1
    /\ Len(dim_channels.rows) >= 2

\* the fact row f comes from the staging row s
DerivedFrom(f, s) ==
    /\ f.message_id = s.message_id
    /\ \E k \in 1..Len(dim_channels.rows) :
         /\ dim_channels.rows[k].channel_key = f.channel_key
         /\ dim_channels.rows[k].channel_name = s.channel_name

\* every fact row is valid, and a staging row with a negative view count is
\* needs_review and has no fact row
NoFactFromNeedsReview ==
    /\ fct_messages.exists =>
         \A i \in 1..Len(fct_messages.rows) :
           fct_messages.rows[i].data_quality_status = "valid"
    /\ \A j \in 1..Len(stg_telegram_messages.rows) :
         Val(stg_telegram_messages.rows[j].views) < 0 =>
           /\ stg_telegram_messages.rows[j].data_quality_status = "needs_review"
           /\ \A i \in 1..Len(fct_messages.rows) :
                ~DerivedFrom(fct_messages.rows[i], stg_telegram_messages.rows[j])

C4_DroppedIffAfterRunTime ==
    [][StagingBuilt =>
         /\ \A i \in 1..Len(raw_telegram_messages'.rows) :
              LET r == raw_telegram_messages'.rows[i]
              IN IsTimestamp(r.message_date) =>
                   (~InStaging(r, stg_telegram_messages'.rows)
                      <=> After(Val(r.message_date), now))
         /\ \A j \in 1..Len(stg_telegram_messages'.rows) :
              ~stg_telegram_messages'.rows[j].is_future_date
      ]_vars

\* C5: a run of the pipeline on a complete warehouse, with every key of the
\* files already in the raw table, leaves dim_dates, dim_channels and
\* fct_messages with the rows they had.
C5_RerunKeepsRows ==
    [][(IsRunStep /\ raw_telegram_messages.exists /\ fct_messages.exists
          /\ KeySet(raw_telegram_messages.rows) = KeysSeen(files))
       => /\ dim_dates' = dim_dates
          /\ dim_channels' = dim_channels
          /\ fct_messages' = fct_messages
      ]_vars

\* the pipeline has run to its end again on a complete warehouse with the
\* same input, and the warehouse has fact rows
C5_Witness ==
    /\ last_run.status = "done"
    /\ last_run.rerun
    /\ Len(fct_messages.rows) >= 1
    /\ Len(dim_channels.rows) >= 1

\* the rows the staging SELECT gives over the raw rows at clock value n
\* that are not in the staging rows stg
NotStaged(rows, stg, n) ==
    {i \in 1..Len(rows) :
       /\ IsTimestamp(rows[i].message_date)
       /\ ~After(Val(rows[i].message_date), n)
       /\ ~InStaging(rows[i], stg)}

\* C6: when a run on a complete warehouse loads further raw messages and
\* runs to its end, dim_dates afterwards holds the days from 30 before the
\* earliest to 30 after the latest date of the staging rows the raw messages
\* now give.
C6_WiderRangeSupersedes ==
    [][(IsCompleteRun /\ dim_dates.exists /\ fct_messages.exists
          /\ raw_telegram_messages'.rows # raw_telegram_messages.rows)
       => dim_dates'.rows =
            BuildDates(BuildStaging(raw_telegram_messages'.rows, now), now)
      ]_vars

\* C7: after every run that ran to its end, stg_telegram_messages has a row
\* for every raw row whose timestamp is not after the run time.
C7_StagingCoversRaw ==
    [][IsCompleteRun =>
         NotStaged(raw_telegram_messages'.rows, stg_telegram_messages'.rows, now) = {}
      ]_vars

\* C8: fct_messages never has more rows than stg_telegram_messages has valid
\* rows.
C8_AtMostOneFactPerValidRow ==
    fct_messages.exists =>
      Len(fct_messages.rows) <= Len(ValidRows(stg_telegram_messages.rows))

\* C9: a run that fails at a stage leaves no table it created and no row it
\* inserted behind.
C9_FailedRunLeavesNothing ==
    [][(IsRunStep /\ last_run'.status = "failed")
       => UNCHANGED <<raw_telegram_messages, stg_telegram_messages, dim_dates,
                      dim_channels, fct_messages>>
      ]_vars

\* C10: after run_data_tests, the returned results and the report have one
\* entry for each of the five checks, the entry of a check whose query
\* raised having passed = false.
C10_ErrorReportedAsFailed ==
    last_run.status \in {"done", "tested"} =>
      /\ Len(last_run.results) = Len(TestNames)
      /\ Len(report.rows) = Len(TestNames)
      /\ \A i \in 1..Len(TestNames) :
           IsNull(TestQuery(i, stg_telegram_messages, dim_channels, dim_dates,
                            fct_messages, now))
           => /\ last_run.results[i].test = TestNames[i]
              /\ ~last_run.results[i].passed
              /\ report.rows[i].status = "FAIL"

\* the printed lines of the checks whose query gave a count
ReportedTests(printed) == SelectSeq(printed, LAMBDA l : ~l.error)

\* the number of the test named name
TestNo(name) == CHOOSE i \in 1..Len(TestNames) : TestNames[i] = name

\* C11: every call of run_data_tests returns, having attempted the five
\* checks in their order whatever check raised; each check whose query gave
\* a count has its entry, with that count, in the results and in the report,
\* in the order of the checks, also when a check before it raised.
C11_ErrorsDoNotStopChecks ==
    last_run.status \in {"done", "tested"} =>
      /\ Len(last_run.printed) = Len(TestNames)
      /\ \A i \in 1..Len(TestNames) : last_run.printed[i].test = TestNames[i]
      /\ Len(last_run.results) = Len(ReportedTests(last_run.printed))
      /\ Len(report.rows) = Len(last_run.results)
      /\ \A k \in 1..Len(last_run.results) :
           /\ last_run.results[k].test = ReportedTests(last_run.printed)[k].test
           /\ report.rows[k].test = last_run.results[k].test
           /\ Some(last_run.results[k].result) =
                TestQuery(TestNo(last_run.results[k].test), stg_telegram_messages,
                          dim_channels, dim_dates, fct_messages, now)

\* a call in which a check raised and a later check was reported
C11_Witness ==
    /\ last_run.status = "tested"
    /\ \E j, i \in 1..Len(last_run.printed) :
         /\ j < i
         /\ last_run.printed[j].error
         /\ ~last_run.printed[i].error
         /\ \E k \in 1..Len(last_run.results) :
              last_run.results[k].test = TestNames[i]

\* check i of the last call gave the count 0
CheckPassed(i) ==
    /\ i <= Len(last_run.printed)
    /\ ~last_run.printed[i].error
    /\ \E k \in 1..Len(last_run.results) :
         /\ last_run.results[k].test = TestNames[i]
         /\ last_run.results[k].result = 0

\* C12: run_data_tests returns all_passed = true exactly when each of the
\* five checks gave the count 0; a check that raised did not pass.
C12_AllPassedIffEveryCheckPassed ==
    last_run.status \in {"done", "tested"} =>
      (last_run.all_passed <=> \A i \in 1..Len(TestNames) : CheckPassed(i))

\* a call in which a check raised and every other check gave 0
C12_Witness ==
    /\ last_run.status = "tested"
    /\ ~last_run.all_passed
    /\ Len(last_run.results) = Len(TestNames) - 1
    /\ \A k \in 1..Len(last_run.results) : last_run.results[k].passed

\* C13: after a run of the pipeline that ran to its end, each of the five
\* checks has given the count 0 and all_passed is true.
C13_BuiltWarehousePassesChecks ==
    last_run.status = "done" =>
      /\ last_run.all_passed
      /\ Len(last_run.results) = Len(TestNames)
      /\ \A k \in 1..Len(last_run.results) :
           /\ last_run.results[k].test = TestNames[k]
           /\ last_run.results[k].result = 0

\* a run to the end over a warehouse with fact rows, channels and a staging
\* row that needs review
C13_Witness ==
    /\ last_run.status = "done"
    /\ last_run.all_passed
    /\ Len(fct_messages.rows) >= 1
    /\ \E j \in 1..Len(stg_telegram_messages.rows) :
         stg_telegram_messages.rows[j].data_quality_status = "needs_review"

\* C14: the value load_raw_data returns is the number of rows the call
\* added to raw_telegram_messages.
C14_ReturnsNewlyInserted ==
    [][IsRunStep =>
         last_run'.messages_loaded =
           Len(raw_telegram_messages'.rows) - Len(raw_telegram_messages.rows)
      ]_vars

\* the file fs[i] holds an element that is no object, or comes after a file
\* that does
AtOrAfterMalformed(fs, i) ==
    \E h \in 1..i : \E k \in 1..Len(fs[h].items) : fs[h].items[k].kind # "dict"

\* C15: after a load, every object with a key that stands in a file with an
\* element that is no object, before or after that element, or in a file
\* after such a file, has its row in raw_telegram_messages.
C15_MalformedSkipped ==
    [][IsRunStep =>
         \A i \in 1..Len(files) : \A j \in 1..Len(files[i].items) :
           (/\ AtOrAfterMalformed(files, i)
            /\ files[i].items[j].kind = "dict"
            /\ ~IsNull(Get(files[i].items[j], "message_id", None)))
           => \E r \in 1..Len(raw_telegram_messages'.rows) :
                /\ raw_telegram_messages'.rows[r].message_id =
                     files[i].items[j].message_id
                /\ raw_telegram_messages'.rows[r].channel_name =
                     Get(files[i].items[j], "channel_name", Some(""))
      ]_vars

\* a loaded file whose first element is no object and whose second is a
\* message that has its row
C15_Witness ==
    /\ raw_telegram_messages.exists
    /\ \E i \in 1..Len(files) :
         /\ Len(files[i].items) = 2
         /\ files[i].items[1].kind # "dict"
         /\ files[i].items[2].kind = "dict"
         /\ <<files[i].items[2].message_id, files[i].items[2].channel_name>>
              \in KeySet(raw_telegram_messages.rows)

\* the sequence s from its last element to its first
Reverse(s) == [i \in 1..Len(s) |-> s[Len(s) + 1 - i]]

\* the rows of a table without the surrogate id
WithoutId(rows) ==
    {[f \in (DOMAIN rows[i]) \ {"id"} |-> rows[i][f]] : i \in 1..Len(rows)}

\* C16: a first load of the files leaves raw_telegram_messages with the rows
\* (all fields but the surrogate id) that a load of the same files in the
\* opposite order gives.
C16_LoadOrderIndependent ==
    [][(IsRunStep /\ ~raw_telegram_messages.exists)
       => WithoutId(raw_telegram_messages'.rows) =
            WithoutId(load_raw_data(NoTable, Reverse(files), now).rows)
      ]_vars

\* the text t has only spaces
OnlySpaces(t) == \A i \in 1..Len(t) : t[i] = " "

\* C17: every row of stg_telegram_messages is needs_review exactly when one
\* of its three flags is true and valid otherwise, and each flag is what its
\* own column gives: is_empty_message for a null or blank text,
\* has_negative_views for a view count below 0.
C17_StatusIffAnyFlag ==
    \A j \in 1..Len(stg_telegram_messages.rows) :
      LET r == stg_telegram_messages.rows[j]
      IN /\ r.data_quality_status \in {"needs_review", "valid"}
         /\ r.data_quality_status = "needs_review"
              <=> (r.is_empty_message \/ r.is_future_date \/ r.has_negative_views)
         /\ r.is_empty_message
              <=> (IsNull(r.message_text) \/ OnlySpaces(Val(r.message_text)))
         /\ r.has_negative_views <=> Val(r.views) < 0

\* staging holds a row with both flags and a row with one flag only
C17_Witness ==
    /\ \E j \in 1..Len(stg_telegram_messages.rows) :
         /\ stg_telegram_messages.rows[j].is_empty_message
         /\ stg_telegram_messages.rows[j].has_negative_views
    /\ \E j \in 1..Len(stg_telegram_messages.rows) :
         /\ stg_telegram_messages.rows[j].is_empty_message
         /\ ~stg_telegram_messages.rows[j].has_negative_views

\* the step in which dim_dates is created
DatesBuilt == ~dim_dates.exists /\ dim_dates'.exists

\* the days of the staging rows that carry a date
StagedDays(stg) ==
    {Val(stg[i].message_date).day :
       i \in {j \in 1..Len(stg) : IsTimestamp(stg[j].message_date)}}

SetMin(S) == CHOOSE x \in S : \A y \in S : x <= y
SetMax(S) == CHOOSE x \in S : \A y \in S : x >= y

\* the rows of days hold each day from lo to hi once and no other day, with
\* the date_key of each its YYYYMMDD number
OneRowPerDay(days, lo, hi) ==
    /\ Len(days) = hi - lo + 1
    /\ \A d \in lo..hi :
         Cardinality({k \in 1..Len(days) : DateRow(days[k]).full_date = CivilOf(d)}) = 1
    /\ \A k \in 1..Len(days) :
         DateRow(days[k]).date_key =
           DateRow(days[k]).full_date[1] * 10000
             + DateRow(days[k]).full_date[2] * 100 + DateRow(days[k]).full_date[3]

\* the date_key grows with the date
KeysGrowWithDate(days) ==
    \A k, l \in 1..Len(days) :
      days[k] < days[l] => DateRow(days[k]).date_key < DateRow(days[l]).date_key

\* C18: when dim_dates is created over a staging table with a dated row, it
\* holds one row for each day from 30 days before the earliest to 30 days
\* after the latest staging date and no other row; each date_key is the
\* YYYYMMDD number of its date, and the keys grow with the date.
C18_OneRowPerPaddedDay ==
    [][(DatesBuilt /\ StagedDays(stg_telegram_messages'.rows) # {})
       => /\ OneRowPerDay(dim_dates'.rows,
                          SetMin(StagedDays(stg_telegram_messages'.rows)) - PadDays,
                          SetMax(StagedDays(stg_telegram_messages'.rows)) + PadDays)
          /\ KeysGrowWithDate(dim_dates'.rows)
      ]_vars

\* a date dimension over staging rows of more than one date
C18_Witness ==
    /\ dim_dates.exists
    /\ Cardinality(StagedDays(stg_telegram_messages.rows)) >= 2
    /\ Len(dim_dates.rows) > 2 * PadDays + 1

\* C19: when dim_dates is created over a staging table with no dated row, it
\* holds the days from 395 days before to 395 days after the run date.
C19_DefaultWindowPadded ==
    [][(DatesBuilt /\ StagedDays(stg_telegram_messages'.rows) = {})
       => dim_dates'.rows =
            [i \in 1..(2 * (DefaultDays + PadDays) + 1) |->
               now.day - (DefaultDays + PadDays) + i - 1]
      ]_vars

\* the distinct (channel_name, channel_username, channel_title) of the valid
\* rows of stg
ValidTriples(stg) ==
    {<<stg[i].channel_name, stg[i].channel_username, stg[i].channel_title>> :
       i \in {j \in 1..Len(stg) : stg[j].data_quality_status = "valid"}}

\* C20: whenever dim_channels exists, its channel_key values are 1..N, each
\* on one row, N the number of distinct (channel_name, channel_username,
\* channel_title) among the valid staging rows.
C20_ChannelKeysDense ==
    dim_channels.exists =>
      /\ Len(dim_channels.rows) = Cardinality(ValidTriples(stg_telegram_messages.rows))
      /\ {dim_channels.rows[k].channel_key : k \in 1..Len(dim_channels.rows)}
           = 1..Cardinality(ValidTriples(stg_telegram_messages.rows))

\* a channel dimension of two rows that carry the same channel_name
C20_Witness ==
    /\ dim_channels.exists
    /\ Len(dim_channels.rows) = 2
    /\ dim_channels.rows[1].channel_name = dim_channels.rows[2].channel_name

\* a percentage in hundredths that is not NULL and lies in 0..100
InPercentRange(p) == ~IsNull(p) /\ 0 <= Val(p) /\ Val(p) <= 10000

\* C22: every row of dim_channels has media and image post counts between 0
\* and total_posts and media_percentage and image_percentage between 0 and
\* 100, and a row with total_posts = 0 has both percentages 0.
C22_PercentagesBounded ==
    dim_channels.exists =>
      \A k \in 1..Len(dim_channels.rows) :
        LET c == dim_channels.rows[k]
        IN /\ 0 <= c.posts_with_media /\ c.posts_with_media <= c.total_posts
           /\ 0 <= c.posts_with_image /\ c.posts_with_image <= c.total_posts
           /\ InPercentRange(c.media_percentage)
           /\ InPercentRange(c.image_percentage)
           /\ c.total_posts = 0 =>
                c.media_percentage = Some(0) /\ c.image_percentage = Some(0)

\* a channel dimension with a row at 100 percent and a row at 0 percent
C22_Witness ==
    /\ dim_channels.exists
    /\ \E k \in 1..Len(dim_channels.rows) :
         dim_channels.rows[k].media_percentage = Some(10000)
    /\ \E k \in 1..Len(dim_channels.rows) :
         dim_channels.rows[k].media_percentage = Some(0)

FirstSeen(c, stg) ==
    CHOOSE i \in 1..Len(stg) :
      /\ stg[i].data_quality_status = "valid" /\ GroupKey(stg[i]) = GroupKey(c)
      /\ \A j \in 1..(i - 1) :
           ~(stg[j].data_quality_status = "valid" /\ GroupKey(stg[j]) = GroupKey(c))

\* C24: of two rows of dim_channels the one with more posts has the smaller
\* channel_key, and of two with equal total_posts the one whose channel comes
\* first in the input has the smaller channel_key.
C24_KeysByPostCountThenFirstSeen ==
    dim_channels.exists =>
      \A a, b \in 1..Len(dim_channels.rows) :
        LET ca == dim_channels.rows[a]
            cb == dim_channels.rows[b]
        IN /\ ca.total_posts > cb.total_posts => ca.channel_key < cb.channel_key
           /\ (/\ ca.total_posts = cb.total_posts
               /\ FirstSeen(ca, stg_telegram_messages.rows)
                    < FirstSeen(cb, stg_telegram_messages.rows))
              => ca.channel_key < cb.channel_key

\* C25: every row of fct_messages carries the channel_key of a dim_channels
\* row whose (channel_name, channel_username, channel_title) is that of a
\* staging row with the fact row's message_id.
C25_FactKeyIsKeyOfOwnTriple ==
    fct_messages.exists =>
      \A i \in 1..Len(fct_messages.rows) :
        \E j \in 1..Len(stg_telegram_messages.rows) :
          \E k \in 1..Len(dim_channels.rows) :
            /\ stg_telegram_messages.rows[j].message_id
                 = fct_messages.rows[i].message_id
            /\ dim_channels.rows[k].channel_key = fct_messages.rows[i].channel_key
            /\ GroupKey(dim_channels.rows[k])
                 = GroupKey(stg_telegram_messages.rows[j])

\* C26: no row of stg_telegram_messages has a message_date that is no
\* timestamp, and no row of dim_channels has statistics over such a date.
C26_MalformedDateNeverStaged ==
    /\ \A j \in 1..Len(stg_telegram_messages.rows) :
         IsTimestamp(stg_telegram_messages.rows[j].message_date)
    /\ \A k \in 1..Len(dim_channels.rows) :
         /\ dim_channels.rows[k].first_post_date.kind = "ts"
         /\ dim_channels.rows[k].last_post_date.kind = "ts"

\* C27: every row of stg_telegram_messages has a message_length that is not
\* NULL and not negative, the length of its trimmed text where it has a text.
C27_MessageLengthDefined ==
    \A j \in 1..Len(stg_telegram_messages.rows) :
      LET s == stg_telegram_messages.rows[j]
      IN /\ ~IsNull(s.message_length)
         /\ Val(s.message_length) >= 0
         /\ ~IsNull(s.message_text) =>
              s.message_length = Some(Len(RTrim(LTrim(Val(s.message_text)))))

\* none of the four tables create_star_schema builds exists
EmptyWarehouse ==
    /\ ~stg_telegram_messages.exists
    /\ ~dim_dates.exists
    /\ ~dim_channels.exists
    /\ ~fct_messages.exists

\* the valid staging rows whose message_date is a timestamp
ResolvableRows(stg) ==
    {j \in 1..Len(stg) :
       stg[j].data_quality_status = "valid" /\ IsTimestamp(stg[j].message_date)}

\* the staging row s has a fact row that carries the key of its channel's
\* row of chans and the key of its day's row of days
HasFact(s, chans, days, facts) ==
    \E i \in 1..Len(facts) :
      /\ facts[i].message_id = s.message_id
      /\ \E k \in 1..Len(chans) :
           /\ chans[k].channel_key = facts[i].channel_key
           /\ GroupKey(chans[k]) = GroupKey(s)
      /\ \E d \in 1..Len(days) :
           /\ DateRow(days[d]).date_key = facts[i].date_key
           /\ days[d] = Val(s.message_date).day

\* C29: after a run that builds the four tables from none and runs to its
\* end, every valid staging row with a timestamp has a fact row with the key
\* of its channel and of its day, and fct_messages has at least as many rows
\* as there are such staging rows.
C29_NoReferentialMiss ==
    [][(IsCompleteRun /\ EmptyWarehouse)
       => /\ \A j \in ResolvableRows(stg_telegram_messages'.rows) :
               HasFact(stg_telegram_messages'.rows[j], dim_channels'.rows,
                       dim_dates'.rows, fct_messages'.rows)
          /\ Len(fct_messages'.rows)
               >= Cardinality(ResolvableRows(stg_telegram_messages'.rows))
      ]_vars

\* a finished build with two valid dated staging rows, each with its fact row
C29_Witness ==
    /\ last_run.status = "done"
    /\ Cardinality(ResolvableRows(stg_telegram_messages.rows)) = 2
    /\ \A j \in ResolvableRows(stg_telegram_messages.rows) :
         HasFact(stg_telegram_messages.rows[j], dim_channels.rows,
                 dim_dates.rows, fct_messages.rows)

\* words in capitals, as characters
MEDICAL == <<"M", "E", "D", "I", "C", "A", "L">>
HEALTH == <<"H", "E", "A", "L", "T", "H">>
HOSPITAL == <<"H", "O", "S", "P", "I", "T", "A", "L">>
CLINIC == <<"C", "L", "I", "N", "I", "C">>
DOCTOR == <<"D", "O", "C", "T", "O", "R">>
MAKEUP == <<"M", "a", "k", "e", "U", "p">>

\* the lower-case text t holds a keyword of kws
Matches(t, kws) == \E kw \in kws : Contains(t, kw)

\* the channel_type of the name of channel_classification is computed
Classified == ~IsNull(channel_classification.channel_type)

\* C21: the channel_type of a name is Pharmaceutical if its lower-case form
\* holds a Pharmaceutical keyword, else Cosmetics if it holds a Cosmetics
\* keyword, else Medical if it holds a Medical keyword, else Other;
\* 'HealthPlus' and 'DOCTOR' are Medical, 'SkinGlow' and 'MakeUp' Cosmetics.
C21_FirstMatchingCategory ==
    Classified =>
      LET name == channel_classification.channel_name
          t    == Lower(name)
          type == Val(channel_classification.channel_type)
      IN /\ Matches(t, PharmaKeywords) => type = "Pharmaceutical"
         /\ (~Matches(t, PharmaKeywords) /\ Matches(t, CosmeticsKeywords))
              => type = "Cosmetics"
         /\ (/\ ~Matches(t, PharmaKeywords) /\ ~Matches(t, CosmeticsKeywords)
             /\ Matches(t, MedicalKeywords)) => type = "Medical"
         /\ (/\ ~Matches(t, PharmaKeywords) /\ ~Matches(t, CosmeticsKeywords)
             /\ ~Matches(t, MedicalKeywords)) => type = "Other"
         /\ name = NameChars("HealthPlus") => type = "Medical"
         /\ name = NameChars("SkinGlow") => type = "Cosmetics"
         /\ name = DOCTOR => type = "Medical"
         /\ name = MAKEUP => type = "Cosmetics"

\* a classified name that holds a Cosmetics keyword and a Medical keyword
C21_Witness ==
    /\ Classified
    /\ Matches(Lower(channel_classification.channel_name), CosmeticsKeywords)
    /\ Matches(Lower(channel_classification.channel_name), MedicalKeywords)
    /\ channel_classification.channel_type = Some("Cosmetics")

\* C30: a name that holds 'medical' in any letter case is Pharmaceutical,
\* and a name is Medical only if it holds health, hospital, clinic or doctor
\* and no Pharmaceutical or Cosmetics keyword.
C30_MedicalNamesArePharmaceutical ==
    Classified =>
      LET t    == Lower(channel_classification.channel_name)
          type == Val(channel_classification.channel_type)
      IN /\ Contains(t, Lower(MEDICAL)) => type = "Pharmaceutical"
         /\ type = "Medical" =>
              /\ \/ Contains(t, Lower(HEALTH))
                 \/ Contains(t, Lower(HOSPITAL))
                 \/ Contains(t, Lower(CLINIC))
                 \/ Contains(t, Lower(DOCTOR))
              /\ ~Matches(t, PharmaKeywords)
              /\ ~Matches(t, CosmeticsKeywords)

\* a classified name that holds 'MEDICAL' in capitals
C30_Witness ==
    /\ Classified
    /\ Contains(channel_classification.channel_name, MEDICAL)
    /\ channel_classification.channel_type = Some("Pharmaceutical")

\* a step of one of the two other loaders
IsLoaderStep ==
    files' = files /\ last_run'.status \in {"postgres", "asset_done", "asset_failed"}

\* the keys (message_id, channel_name) of the objects in the files fs
\* that are lists
KeysOfLists(fs) == KeysSeen(SelectSeq(fs, LAMBDA f : f.list))

\* C28: when every file is a list, after load_json_to_postgres the table of
\* the Postgres loader, and after processed_telegram_data the raw table,
\* holds the key of every object of the files, whatever elements that are no
\* objects stand beside them.
C28_BadRecordSkippedPerRecord ==
    [][(IsLoaderStep /\ \A i \in 1..Len(files) : files[i].list)
       => IF last_run'.status = "postgres"
          THEN KeysOfLists(files) \subseteq KeySet(pg_telegram_messages'.rows)
          ELSE KeysOfLists(files) \subseteq KeySet(raw_telegram_messages'.rows)
      ]_vars

====
